---- MODULE Spec2Model ----
(***************************************************************************)
(* A model of the marketplace server.  The repository holds three          *)
(* revisions of the server; exactly one of them is deployed in a run:      *)
(*   "p0"  src/unnamed/part_000        (trial / subscription revision,     *)
(*         src/unnamed/part_001 is an earlier cut of the same handlers)    *)
(*   "sA"  src/server.js lines 1-347   (Provider collection)               *)
(*   "sB"  src/server.js lines 349-833 (roles, reviews and ratings)        *)
(* Text that the code trims, re-cases or matches is a tuple of one-letter  *)
(* strings; a missing (undefined) form field is the tuple Undef.           *)
(***************************************************************************)
EXTENDS Integers, Sequences, FiniteSets, TLC

VARIABLES rev, users, sessions, now, reqs, resp, last

vars == <<rev, users, sessions, now, reqs, resp, last>>

\* ------------------------------------------------------------------ bounds
MaxAccounts == 2
NumSessions == 1
MaxReqs == 2
MaxReviews == 2
MaxWeeks == 1

\* ------------------------------------------------------- program constants
ONE_DAY_MS == 86400000
ONE_WEEK_MS == 7 * 24 * 60 * 60 * 1000

Revisions == {"p0", "sA", "sB"}
Sessions == 1..NumSessions
Reqs == 1..MaxReqs

\* ------------------------------------------------------------------- text
Undef == <<"undefined">>
Empty == <<>>

Truthy(x) == x # Undef /\ x # Empty

LowerChars == <<"a","b","c","d","e","f","g","h","i","j","k","l","m",
                "n","o","p","q","r","s","t","u","v","w","x","y","z">>
UpperChars == <<"A","B","C","D","E","F","G","H","I","J","K","L","M",
                "N","O","P","Q","R","S","T","U","V","W","X","Y","Z">>

toUpperCaseChar(c) ==
    IF \E i \in 1..26 : LowerChars[i] = c
    THEN UpperChars[CHOOSE i \in 1..26 : LowerChars[i] = c]
    ELSE c

toLowerCaseChar(c) ==
    IF \E i \in 1..26 : UpperChars[i] = c
    THEN LowerChars[CHOOSE i \in 1..26 : UpperChars[i] = c]
    ELSE c

toUpperCase(t) == [i \in 1..Len(t) |-> toUpperCaseChar(t[i])]
toLowerCase(t) == [i \in 1..Len(t) |-> toLowerCaseChar(t[i])]

WhiteSpace == {" ", "\t", "\n"}

RECURSIVE trimStart(_)
trimStart(t) ==
    IF t # <<>> /\ Head(t) \in WhiteSpace THEN trimStart(Tail(t)) ELSE t

RECURSIVE trimEnd(_)
trimEnd(t) ==
    IF t # <<>> /\ t[Len(t)] \in WhiteSpace
    THEN trimEnd(SubSeq(t, 1, Len(t) - 1))
    ELSE t

trim(t) == trimEnd(trimStart(t))

\* charAt(0).toUpperCase() + slice(1).toLowerCase()
capitalize(t) ==
    IF t = <<>> THEN <<>>
    ELSE <<toUpperCaseChar(t[1])>> \o toLowerCase(Tail(t))

\* Array.prototype.sort() with no comparator orders strings by their UTF-16
\* code units: the space, the digits, the capitals, then the small letters
CodeUnits ==
    <<" ">> \o <<"0","1","2","3","4","5","6","7","8","9">> \o
    <<"A","B","C","D","E","F","G","H","I","J","K","L","M",
      "N","O","P","Q","R","S","T","U","V","W","X","Y","Z">> \o
    <<"a","b","c","d","e","f","g","h","i","j","k","l","m",
      "n","o","p","q","r","s","t","u","v","w","x","y","z">>

codeUnitOf == [c \in {CodeUnits[i] : i \in DOMAIN CodeUnits} |->
                  CHOOSE i \in DOMAIN CodeUnits : CodeUnits[i] = c]

codeUnit(c) == codeUnitOf[c]

RECURSIVE textLess(_, _)
textLess(a, b) ==
    IF b = <<>> THEN FALSE
    ELSE IF a = <<>> THEN TRUE
    ELSE IF a[1] = b[1] THEN textLess(Tail(a), Tail(b))
    ELSE codeUnit(a[1]) < codeUnit(b[1])

\* a string put at its place in a sorted array
RECURSIVE insertString(_, _)
insertString(x, arr) ==
    IF arr = <<>> THEN <<x>>
    ELSE IF textLess(x, arr[1]) THEN <<x>> \o arr
    ELSE <<arr[1]>> \o insertString(x, Tail(arr))

\* the sorted array of a collection of distinct strings
RECURSIVE sortStrings(_)
sortStrings(S) ==
    IF S = {} THEN <<>>
    ELSE LET x == CHOOSE y \in S : TRUE
         IN insertString(x, sortStrings(S \ {x}))

Range(seq) == {seq[i] : i \in DOMAIN seq}

\* parseInt(text, 10): leading white space, an optional sign, then digits;
\* nan when no digit is there
Digits == <<"0","1","2","3","4","5","6","7","8","9">>
isDigit(c) == \E i \in 1..10 : Digits[i] = c
digitValue(c) == (CHOOSE i \in 1..10 : Digits[i] = c) - 1

RECURSIVE digitsValue(_, _)
digitsValue(t, acc) ==
    IF t # <<>> /\ isDigit(Head(t))
    THEN digitsValue(Tail(t), 10 * acc + digitValue(Head(t)))
    ELSE acc

parseInt(t) ==
    IF t = Undef THEN [nan |-> TRUE, val |-> 0]
    ELSE LET u == trimStart(t)
             signed == u # <<>> /\ Head(u) \in {"-", "+"}
             v == IF signed THEN Tail(u) ELSE u
         IN IF v = <<>> \/ ~isDigit(Head(v))
            THEN [nan |-> TRUE, val |-> 0]
            ELSE [nan |-> FALSE,
                  val |-> IF signed /\ Head(u) = "-" THEN 0 - digitsValue(v, 0)
                          ELSE digitsValue(v, 0)]

\* ------------------------------------------------------------ credentials
\* bcrypt is an opaque one-way hash with a verify operation
bcryptHash(p) == <<"bcrypt", p>>

\* (mutation) a comparison that accepts every password
bcryptCompare_any(p, h) == TRUE

bcryptCompare(p, h) == h = bcryptHash(p)

\* ------------------------------------------------------------ input texts
tJohnDoe == <<"J","o","h","n"," ","D","o","e">>
tAnn == <<"A","n","n">>
tPlumbing == <<"P","l","u","m","b","i","n","g">>
tOther == <<"o","t","h","e","r">>
tTiling == <<" ","t","I","l","i","n","g"," ">>
tBlank == <<" "," ">>
tPhone == <<"0","7","0","0">>
tAllCategories == <<"A","l","l"," ","C","a","t","e","g","o","r","i","e","s">>

tjohn == <<"j","o","h","n">>
tUser == <<"U","s","e","r">>
tGeneral == <<"G","e","n","e","r","a","l">>
tBob == <<"B","o","b">>
tGreat == <<"G","r","e","a","t">>

Emails == {"a@x.io", "b@x.io"}
Passwords == {"pw1", "pw2"}

\* the clock readings the model visits: the start, and each later week
\* boundary with the milliseconds next to it
Instants == {0} \cup {k * ONE_WEEK_MS + j : k \in 1..MaxWeeks, j \in {-1, 0, 1}}

\* ------------------------------------------------------------------ store
NoDate == -1

\* a document of the users collection (the union of the revisions' schemas;
\* a path a revision's schema lacks keeps its absent value)
NewDoc(id) ==
    [_id |-> id, email |-> "", password |-> <<>>, role |-> "provider",
     name |-> Undef, category |-> Undef, contactInfo |-> Undef,
     description |-> Undef, profilePictureUrl |-> Undef,
     isSubscribed |-> FALSE, trialStartDate |-> NoDate, createdAt |-> NoDate,
     reviews |-> <<>>]

\* the id the store gives the next inserted document
NextId == Cardinality(DOMAIN users) + 1

\* (mutation) a collection without the unique index
DuplicateKey_off(email) == FALSE

\* email: { unique: true }: the unique index refuses a second document
\* with an email already present
DuplicateKey(email) == \E i \in DOMAIN users : users[i].email = email

findOneByEmail(email) == {i \in DOMAIN users : users[i].email = email}

\* ---------------------------------------------------------------- session
NoSession ==
    [userId |-> 0, error |-> "", message |-> "",
     success_msg |-> "", error_msg |-> "",
     reviewError |-> "", reviewMessage |-> "",
     isLoggedIn |-> FALSE, role |-> "", userName |-> Undef]

\* the global middleware: flash messages move to res.locals and leave
\* the session
flashLocals(s) == [error |-> sessions[s].error, message |-> sessions[s].message]
flashCleared(s) == [sessions[s] EXCEPT !.error = "", !.message = ""]

\* ---------------------------------------------------------------- replies
\* error and message are the flash locals of the page (or the error the
\* handler gives the page under the same name); pageError is the error
\* local of a page whose flash locals have other names
NoResp ==
    [op |-> "", sess |-> 0, kind |-> "none", status |-> 0, view |-> "",
     to |-> "", error |-> "", message |-> "", providers |-> <<>>,
     isTrialActive |-> FALSE, daysLeft |-> 0, categories |-> <<>>,
     pageError |-> ""]

render(op, s, view, locals) ==
    [NoResp EXCEPT !.op = op, !.sess = s, !.kind = "render", !.status = 200,
                   !.view = view, !.error = locals.error,
                   !.message = locals.message]

redirect(op, s, to) ==
    [NoResp EXCEPT !.op = op, !.sess = s, !.kind = "redirect", !.status = 302,
                   !.to = to]

send(op, s, status) ==
    [NoResp EXCEPT !.op = op, !.sess = s, !.kind = "send", !.status = status]

\* the request just handled: its operation, session, the account it
\* addressed, that account's document before the request and, for a
\* request that saves what it read earlier, the document it had read
Req(op, s, id) ==
    [op |-> op, sess |-> s, id |-> id, email |-> "", password |-> "",
     before |-> IF id \in DOMAIN users THEN <<users[id]>> ELSE <<>>,
     read |-> <<>>]

NoLast ==
    [op |-> "", sess |-> 0, id |-> 0, email |-> "", password |-> "", before |-> <<>>,
     read |-> <<>>]

\* a login request, with the credentials it presented
LoginReq(op, s, id, email, pw) == [Req(op, s, id) EXCEPT !.email = email, !.password = pw]

\* an entry of a document's reviews array
NoReview == [visitorName |-> Undef, rating |-> 0, comment |-> Undef, date |-> NoDate]

\* a request that awaits: its session, the flash locals its middleware read,
\* the document or review it holds
NoReq ==
    [op |-> "", sess |-> 0, doc |-> NewDoc(0), error |-> "", message |-> "",
     review |-> NoReview]

\* the lowest free slot for a request that awaits
FreeSlot == CHOOSE r \in Reqs : reqs[r] = NoReq /\ \A q \in Reqs : reqs[q] = NoReq => r <= q

Pending == {r \in Reqs : reqs[r] # NoReq}

Init ==
    /\ rev \in Revisions
    /\ users = << >>
    /\ sessions = [s \in Sessions |-> NoSession]
    /\ now = 0
    /\ reqs = [r \in Reqs |-> NoReq]
    /\ resp = NoResp
    /\ last = NoLast

\* time passes; the reply and the request log describe the present instant
\* only
Tick ==
    /\ \E t \in Instants : t > now /\ now' = t
    /\ resp' = NoResp
    /\ last' = NoLast
    /\ UNCHANGED <<rev, users, sessions, reqs>>

\* every request ends by writing its session, its reply and the request log
Reply(s, sess, r, l) ==
    /\ sessions' = [sessions EXCEPT ![s] = sess]
    /\ resp' = r
    /\ last' = l

\* ------------------------------------------- revision p0: part_000 handlers
\* the forms a browser posts to /register and /provider/edit
ProfileForms ==
    { [name |-> tJohnDoe, category |-> tPlumbing, contactInfo |-> tPhone, newCategory |-> Undef],
      [name |-> tAnn, category |-> tOther, contactInfo |-> tPhone, newCategory |-> tTiling],
      [name |-> tAnn, category |-> tOther, contactInfo |-> tPhone, newCategory |-> tBlank],
      [name |-> tAnn, category |-> Empty, contactInfo |-> tPhone, newCategory |-> Undef] }

\* category === 'other' with no usable newCategory
otherCategoryMissing(f) ==
    f.category = tOther /\ (~Truthy(f.newCategory) \/ Len(trim(f.newCategory)) = 0)

finalCategory(f) ==
    IF f.category = tOther /\ Truthy(f.newCategory) /\ Len(trim(f.newCategory)) > 0
    THEN capitalize(trim(f.newCategory))
    ELSE f.category

\* the schema's required paths (a required String rejects undefined and '')
validUser(d) ==
    /\ d.email # ""
    /\ d.password # <<>>
    /\ Truthy(d.category)
    /\ Truthy(d.contactInfo)

\* (mutation) the guard lets every request through
isLoggedIn_open(s) == TRUE

isLoggedIn(s) == sessions[s].userId # 0

\* isLoggedIn's refusal
DenyLogin(op, s) ==
    Reply(s, [flashCleared(s) EXCEPT !.error = "You must be logged in to access that page."],
          redirect(op, s, "/login"), Req(op, s, 0))

\* POST /register up to its await of bcrypt.hash
RegisterBegin(s, email, pw, f) ==
    /\ rev = "p0"
    /\ Cardinality(DOMAIN users) + Cardinality(Pending) < MaxAccounts
    /\ IF otherCategoryMissing(f)
       THEN /\ Reply(s, flashCleared(s),
                     [render("register", s, "register", flashLocals(s))
                        EXCEPT !.error = "Please specify the new category."],
                     Req("register", s, 0))
            /\ UNCHANGED reqs
       ELSE /\ reqs' = [reqs EXCEPT ![FreeSlot] =
                  [op |-> "register", sess |-> s, error |-> "", message |-> sessions[s].message,
                   review |-> NoReview,
                   doc |-> [NewDoc(0) EXCEPT !.email = email,
                                             !.password = bcryptHash(pw),
                                             !.name = f.name,
                                             !.category = finalCategory(f),
                                             !.contactInfo = f.contactInfo]]]
            /\ sessions' = [sessions EXCEPT ![s] = flashCleared(s)]
            /\ last' = Req("registerBegin", s, 0)
            /\ UNCHANGED resp
    /\ UNCHANGED <<rev, users, now>>

\* POST /register from newUser.save() on
RegisterSave(r) ==
    /\ rev = "p0"
    /\ reqs[r].op = "register"
    /\ LET d == reqs[r].doc
           s == reqs[r].sess
           id == NextId
       IN IF ~validUser(d) \/ DuplicateKey(d.email)
          THEN /\ Reply(s, sessions[s],
                        [render("register", s, "register",
                                [error |-> "", message |-> reqs[r].message])
                           EXCEPT !.error = "Registration failed. Email may already be in use."],
                        [Req("registerFailed", s, 0) EXCEPT !.email = d.email])
               /\ UNCHANGED users
          ELSE /\ users' = users @@ (id :> [d EXCEPT !._id = id,
                                                      !.role = "provider",
                                                      !.isSubscribed = FALSE,
                                                      !.trialStartDate = now])
               /\ Reply(s, [sessions[s] EXCEPT !.userId = id],
                        redirect("register", s, "/provider/profile"),
                        [Req("registered", s, 0) EXCEPT !.id = id, !.email = users'[id].email])
    /\ reqs' = [reqs EXCEPT ![r] = NoReq]
    /\ UNCHANGED <<rev, now>>

\* (mutation) a login that tells an unknown email from a wrong password
loginError_leak(found) ==
    IF found = {} THEN "No account with that email." ELSE "Invalid email or password."

\* the error of the login page: one literal after if (!user), one after
\* if (!passwordMatch)
loginError(found) ==
    IF found = {} THEN "Invalid email or password." ELSE "Invalid email or password."

\* POST /login
Login(s, email, pw) ==
    /\ rev = "p0"
    /\ LET found == findOneByEmail(email)
           fail == [render("login", s, "login", flashLocals(s))
                      EXCEPT !.error = loginError(found)]
       IN IF found = {}
          THEN Reply(s, flashCleared(s), fail, LoginReq("loginFailed", s, 0, email, pw))
          ELSE LET id == CHOOSE i \in found : TRUE
               IN IF ~bcryptCompare(pw, users[id].password)
                  THEN Reply(s, flashCleared(s), fail, LoginReq("loginFailed", s, id, email, pw))
                  ELSE Reply(s, [flashCleared(s) EXCEPT !.userId = id],
                             redirect("login", s, "/provider/profile"),
                             LoginReq("login", s, id, email, pw))
    /\ UNCHANGED <<rev, users, now, reqs>>

\* GET /logout
Logout(s) ==
    /\ rev = "p0"
    /\ Reply(s, NoSession, redirect("logout", s, "/"), Req("logout", s, sessions[s].userId))
    /\ UNCHANGED <<rev, users, now, reqs>>

\* (mutation) the window closes one millisecond late
isTrialActive_le(p, t) == ~p.isSubscribed /\ t <= p.trialStartDate + ONE_WEEK_MS

\* the trial policy of GET /provider/profile
trialEndDate(p) == p.trialStartDate + ONE_WEEK_MS

isTrialActive(p, t) == ~p.isSubscribed /\ t < trialEndDate(p)

\* (mutation) Math.floor in place of Math.ceil
ceil_floor(a, b) == a \div b

\* Math.ceil(a / b) for b > 0
ceil(a, b) == IF a % b = 0 THEN a \div b ELSE (a \div b) + 1

daysLeft(p, t) ==
    IF isTrialActive(p, t)
    THEN ceil(trialEndDate(p) - t, 1000 * 60 * 60 * 24)
    ELSE 0

\* GET /provider/profile
Profile(s) ==
    /\ rev = "p0"
    /\ IF ~isLoggedIn(s)
       THEN DenyLogin("profile", s)
       ELSE LET id == sessions[s].userId
            IN IF id \notin DOMAIN users
               THEN Reply(s, flashCleared(s), send("profile", s, 500), Req("profile", s, id))
               ELSE Reply(s, flashCleared(s),
                          [render("profile", s, "provider/profile", flashLocals(s))
                             EXCEPT !.providers = <<users[id]>>,
                                    !.isTrialActive = isTrialActive(users[id], now),
                                    !.daysLeft = daysLeft(users[id], now)],
                          Req("profile", s, id))
    /\ UNCHANGED <<rev, users, now, reqs>>

\* (mutation) the edit replaces the document, so the schema default
\* isSubscribed: false comes back
editUpdate_replace(d, f) ==
    [d EXCEPT !.name = f.name, !.category = f.category, !.contactInfo = f.contactInfo,
              !.isSubscribed = FALSE]

\* (mutation) the edit restarts the trial
editUpdate_restart(d, f) ==
    [d EXCEPT !.name = f.name, !.category = f.category, !.contactInfo = f.contactInfo,
              !.trialStartDate = now]

\* what findByIdAndUpdate of POST /provider/edit writes: the schema has no
\* description and no profilePictureUrl path, so strict mode drops them
editUpdate(d, f) ==
    [d EXCEPT !.name = f.name, !.category = finalCategory(f), !.contactInfo = f.contactInfo]

\* POST /provider/edit
Edit(s, f) ==
    /\ rev = "p0"
    /\ LET id == sessions[s].userId
       IN IF ~isLoggedIn(s)
          THEN DenyLogin("edit", s) /\ UNCHANGED users
          ELSE IF otherCategoryMissing(f)
          THEN /\ Reply(s, [flashCleared(s) EXCEPT !.error = "Please specify the new category."],
                        redirect("edit", s, "/provider/edit"), Req("editRejected", s, id))
               /\ UNCHANGED users
          ELSE IF ~Truthy(finalCategory(f)) \/ ~Truthy(f.contactInfo)
          THEN /\ Reply(s, [flashCleared(s) EXCEPT !.error = "Failed to update profile due to a server error."],
                        redirect("edit", s, "/provider/edit"), Req("editFailed", s, id))
               /\ UNCHANGED users
          ELSE /\ users' = [i \in DOMAIN users |-> IF i = id THEN editUpdate(users[i], f) ELSE users[i]]
               /\ Reply(s, [flashCleared(s) EXCEPT !.message = "Profile updated successfully!"],
                        redirect("edit", s, "/provider/profile"), Req("edit", s, id))
    /\ UNCHANGED <<rev, now, reqs>>

\* (mutation) the activation toggles the flag
activateUpdate_toggle(d) == [d EXCEPT !.isSubscribed = ~@]

\* (mutation) the activation also restarts the trial
activateUpdate_restart(d) == [d EXCEPT !.isSubscribed = TRUE, !.trialStartDate = now]

\* what findByIdAndUpdate of POST /subscribe/activate writes
activateUpdate(d) == [d EXCEPT !.isSubscribed = TRUE]

\* POST /subscribe/activate
Activate(s) ==
    /\ rev = "p0"
    /\ LET id == sessions[s].userId
       IN IF ~isLoggedIn(s)
          THEN DenyLogin("activate", s) /\ UNCHANGED users
          ELSE /\ users' = [i \in DOMAIN users |-> IF i = id THEN activateUpdate(users[i]) ELSE users[i]]
               /\ Reply(s, [flashCleared(s) EXCEPT !.message =
                              "Subscription successfully activated! Your profile is now visible in search results."],
                        redirect("activate", s, "/provider/profile"), Req("activate", s, id))
    /\ UNCHANGED <<rev, now, reqs>>

\* GET /provider/edit
EditPage(s) ==
    /\ rev = "p0"
    /\ IF ~isLoggedIn(s)
       THEN DenyLogin("editPage", s)
       ELSE LET id == sessions[s].userId
            IN IF id \notin DOMAIN users
               THEN Reply(s, [flashCleared(s) EXCEPT !.error = "User not found."],
                          redirect("editPage", s, "/provider/profile"), Req("editPage", s, id))
               ELSE Reply(s, flashCleared(s),
                          [render("editPage", s, "provider/edit-profile", flashLocals(s))
                             EXCEPT !.providers = <<users[id]>>],
                          Req("editPage", s, id))
    /\ UNCHANGED <<rev, users, now, reqs>>

\* GET /subscribe
SubscribePage(s) ==
    /\ rev = "p0"
    /\ IF ~isLoggedIn(s)
       THEN DenyLogin("subscribePage", s)
       ELSE LET id == sessions[s].userId
            IN IF id \notin DOMAIN users
               THEN Reply(s, [flashCleared(s) EXCEPT !.error = "User not found."],
                          redirect("subscribePage", s, "/provider/profile"), Req("subscribePage", s, id))
               ELSE Reply(s, flashCleared(s),
                          [render("subscribePage", s, "subscribe", flashLocals(s))
                             EXCEPT !.providers = <<users[id]>>],
                          Req("subscribePage", s, id))
    /\ UNCHANGED <<rev, users, now, reqs>>

\* (mutation) an unknown email is told apart
forgotMessage_leak(found) ==
    IF found = {}
    THEN "No account is registered for this email."
    ELSE "If an account exists for this email, a password reset link has been sent."

\* the message POST /forgot-password leaves in the session, by the result
\* of User.findOne({ email })
forgotMessage(found) ==
    IF found = {}
    THEN "If an account exists for this email, a password reset link has been sent."
    ELSE "If an account exists for this email, a password reset link has been sent."

\* POST /forgot-password
Forgot(s, email) ==
    /\ rev = "p0"
    /\ Reply(s, [flashCleared(s) EXCEPT !.message = forgotMessage(findOneByEmail(email))],
             redirect("forgot", s, "/forgot-password"),
             [Req("forgot", s, 0) EXCEPT !.email = email])
    /\ UNCHANGED <<rev, users, now, reqs>>

\* the ids a visitor may put in a path: 0 stands for a malformed id, an id
\* above the store's last one resolves to nothing
PathIds == 0..MaxAccounts

\* the test of GET /provider/view/:id
viewable(id) == id \in DOMAIN users /\ users[id].isSubscribed

\* GET /provider/view/:id
View(s, id) ==
    /\ rev = "p0"
    /\ IF id = 0
       THEN Reply(s, [flashCleared(s) EXCEPT !.error = "Error loading provider profile."],
                  redirect("view", s, "/search"), Req("view", s, id))
       ELSE IF ~viewable(id)
       THEN Reply(s, [flashCleared(s) EXCEPT !.error = "Provider not found or not currently subscribed."],
                  redirect("view", s, "/search"), Req("view", s, id))
       ELSE Reply(s, flashCleared(s),
                  [render("view", s, "public-profile", flashLocals(s))
                     EXCEPT !.providers = <<users[id]>>],
                  Req("view", s, id))
    /\ UNCHANGED <<rev, users, now, reqs>>

\* new RegExp(q, 'i') tested on a field: q holds letters only, so the
\* pattern matches where q occurs in the field, whatever the case
regexTestI(q, field) ==
    /\ field # Undef
    /\ \E i \in 1..(Len(field) - Len(q) + 1) :
          toLowerCase(SubSeq(field, i, i + Len(q) - 1)) = toLowerCase(q)

\* the query of GET /search
searchMatches(d, q, category) ==
    /\ d.isSubscribed = TRUE
    /\ (Truthy(category) /\ category # tAllCategories) => d.category = category
    /\ Truthy(q) => \/ regexTestI(q, d.name)
                    \/ regexTestI(q, d.category)
                    \/ regexTestI(q, d.contactInfo)

\* the documents of a set of ids, in the store's natural order
RECURSIVE docsOf(_, _)
docsOf(ids, from) ==
    IF from > Cardinality(DOMAIN users) THEN <<>>
    ELSE (IF from \in ids THEN <<users[from]>> ELSE <<>>) \o docsOf(ids, from + 1)

SearchTexts == {Undef, tjohn}
SearchCategories == {Undef, tAllCategories, tPlumbing}

\* const baseCategories of part_000
baseCategories0 ==
    << <<"D","r","i","v","e","r">>, <<"P","l","u","m","b","e","r">>,
       <<"E","l","e","c","t","r","i","c","i","a","n">>,
       <<"C","a","r","p","e","n","t","e","r">>,
       <<"P","a","i","n","t","e","r">>, <<"M","e","c","h","a","n","i","c">> >>

\* User.distinct('category', filter): the values of the path among the
\* documents of ids, a document without the path giving none
distinctCategory(ids) == {users[i].category : i \in ids} \ {Undef}

\* (mutation) the list built from the stored categories alone
uniqueCategories_stored(dynamicCategories) ==
    <<tAllCategories>> \o
    sortStrings({cat \in dynamicCategories : Truthy(cat) /\ Len(trim(cat)) > 0})

\* new Set([...baseCategories, ...dynamicCategories]), without its blank
\* entries, sorted, 'All Categories' put first
uniqueCategories(dynamicCategories) ==
    <<tAllCategories>> \o
    sortStrings({cat \in Range(baseCategories0) \cup dynamicCategories :
               Truthy(cat) /\ Len(trim(cat)) > 0})

\* GET /search; up tells whether the store answers the two queries
Search(s, q, category, up) ==
    /\ rev = "p0"
    /\ Reply(s, flashCleared(s),
             IF up
             THEN [render("search", s, "search-results", flashLocals(s))
                     EXCEPT !.providers = docsOf({i \in DOMAIN users : searchMatches(users[i], q, category)}, 1),
                            !.categories = uniqueCategories(
                                distinctCategory({i \in DOMAIN users : users[i].isSubscribed = TRUE}))]
             ELSE [render("search", s, "search-results", flashLocals(s))
                     EXCEPT !.error = "Failed to perform search.",
                            !.categories = <<tAllCategories>> \o baseCategories0],
             Req("search", s, 0))
    /\ UNCHANGED <<rev, users, now, reqs>>


\* ------------------------------- revision sA: server.js, the first server
\* its flash middleware works on success_msg and error_msg
flashLocalsA(s) == [error |-> sessions[s].error_msg, message |-> sessions[s].success_msg]
flashClearedA(s) == [sessions[s] EXCEPT !.error_msg = "", !.success_msg = ""]

\* the registration form of sA holds name, email and password
NamesA == {tJohnDoe, Undef}

\* POST /register up to its await of bcrypt.hash
RegisterBeginA(s, email, pw, name) ==
    /\ rev = "sA"
    /\ Cardinality(DOMAIN users) + Cardinality(Pending) < MaxAccounts
    /\ IF findOneByEmail(email) # {}
       THEN /\ Reply(s, [flashClearedA(s) EXCEPT !.error_msg = "Email already registered."],
                     render("register", s, "register", flashLocalsA(s)),
                     [Req("registerFailed", s, 0) EXCEPT !.email = email])
            /\ UNCHANGED reqs
       ELSE /\ reqs' = [reqs EXCEPT ![FreeSlot] =
                  [op |-> "registerA", sess |-> s, error |-> sessions[s].error_msg,
                   message |-> sessions[s].success_msg,
                   review |-> NoReview,
                   doc |-> [NewDoc(0) EXCEPT !.email = email,
                                             !.password = bcryptHash(pw),
                                             !.name = name,
                                             !.category = tGeneral,
                                             !.contactInfo = Empty]]]
            /\ sessions' = [sessions EXCEPT ![s] = flashClearedA(s)]
            /\ last' = Req("registerBegin", s, 0)
            /\ UNCHANGED resp
    /\ UNCHANGED <<rev, users, now>>

\* POST /register from provider.save() on
RegisterSaveA(r) ==
    /\ rev = "sA"
    /\ reqs[r].op = "registerA"
    /\ LET d == reqs[r].doc
           s == reqs[r].sess
           id == NextId
       IN IF ~Truthy(d.name) \/ DuplicateKey(d.email)
          THEN /\ Reply(s, [sessions[s] EXCEPT !.error_msg = "Server error during registration."],
                        render("register", s, "register",
                               [error |-> reqs[r].error, message |-> reqs[r].message]),
                        [Req("registerFailed", s, 0) EXCEPT !.email = d.email])
               /\ UNCHANGED users
          ELSE /\ users' = users @@ (id :> [d EXCEPT !._id = id, !.createdAt = now])
               /\ Reply(s, [sessions[s] EXCEPT !.success_msg = "Registration successful. You can now log in."],
                        redirect("register", s, "/login"),
                        [Req("registered", s, 0) EXCEPT !.id = id, !.email = users'[id].email])
    /\ reqs' = [reqs EXCEPT ![r] = NoReq]
    /\ UNCHANGED <<rev, now>>

\* GET /provider/view/:id
ViewA(s, id) ==
    /\ rev = "sA"
    /\ IF id = 0
       THEN Reply(s, [flashClearedA(s) EXCEPT !.error_msg = "An error occurred fetching the profile."],
                  redirect("view", s, "/search"), Req("view", s, id))
       ELSE IF id \notin DOMAIN users
       THEN Reply(s, [flashClearedA(s) EXCEPT !.error_msg = "Provider not found."],
                  redirect("view", s, "/search"), Req("view", s, id))
       ELSE Reply(s, flashClearedA(s),
                  [render("view", s, "public-profile", flashLocalsA(s))
                     EXCEPT !.providers = <<users[id]>>],
                  Req("view", s, id))
    /\ UNCHANGED <<rev, users, now, reqs>>

\* the entries GET /search of this server always offers
baseCategoriesA ==
    <<tPlumbing, <<"E","l","e","c","t","r","i","c","i","a","n">>,
      <<"G","a","r","d","e","n","i","n","g">>, <<"C","l","e","a","n","i","n","g">> >>

\* the filter of GET /search
searchMatchesA(d, query, category) ==
    /\ Truthy(query) => regexTestI(query, d.name)
    /\ (Truthy(category) /\ category # tAllCategories) => d.category = category

\* ['All Categories', 'Plumbing', ..., ...uniqueCategories.filter(...)]
\* over the sorted distinct categories of the store
uniqueCategoriesA(dynamicCategories) ==
    <<tAllCategories>> \o baseCategoriesA \o
    SelectSeq(sortStrings(dynamicCategories), LAMBDA c : Truthy(c) /\ trim(c) # Empty)

\* GET /search; up tells whether the store answers the two queries
SearchA(s, query, category, up) ==
    /\ rev = "sA"
    /\ Reply(s, flashClearedA(s),
             IF up
             THEN [render("search", s, "search-results", flashLocalsA(s))
                     EXCEPT !.providers = docsOf({i \in DOMAIN users : searchMatchesA(users[i], query, category)}, 1),
                            !.categories = uniqueCategoriesA(distinctCategory(DOMAIN users))]
             ELSE [render("search", s, "search-results", flashLocalsA(s))
                     EXCEPT !.categories = <<tAllCategories>> \o baseCategoriesA,
                            !.pageError = "An error occurred while searching for providers."],
             Req("search", s, 0))
    /\ UNCHANGED <<rev, users, now, reqs>>

\* POST /login
LoginA(s, email, pw) ==
    /\ rev = "sA"
    /\ LET found == findOneByEmail(email)
           fail == [flashClearedA(s) EXCEPT !.error_msg = "Invalid credentials."]
       IN IF found = {}
          THEN Reply(s, fail, render("login", s, "login", flashLocalsA(s)),
                     LoginReq("loginFailed", s, 0, email, pw))
          ELSE LET id == CHOOSE i \in found : TRUE
               IN IF ~bcryptCompare(pw, users[id].password)
                  THEN Reply(s, fail, render("login", s, "login", flashLocalsA(s)),
                             LoginReq("loginFailed", s, id, email, pw))
                  ELSE Reply(s, [flashClearedA(s) EXCEPT !.userId = id,
                                                         !.success_msg = "Login successful!"],
                             redirect("login", s, "/provider/profile"),
                             LoginReq("login", s, id, email, pw))
    /\ UNCHANGED <<rev, users, now, reqs>>

\* GET /logout
LogoutA(s) ==
    /\ rev = "sA"
    /\ Reply(s, NoSession, redirect("logout", s, "/login"), Req("logout", s, sessions[s].userId))
    /\ UNCHANGED <<rev, users, now, reqs>>

ensureAuthenticated(s) == sessions[s].userId # 0

\* GET /provider/profile
ProfileA(s) ==
    /\ rev = "sA"
    /\ IF ~ensureAuthenticated(s)
       THEN Reply(s, [flashClearedA(s) EXCEPT !.error_msg = "Please log in to view this resource."],
                  redirect("profile", s, "/login"), Req("profile", s, 0))
       ELSE LET id == sessions[s].userId
            IN IF id \notin DOMAIN users
               THEN Reply(s, [flashClearedA(s) EXCEPT !.error_msg = "Profile not found. Please log in again."],
                          redirect("profile", s, "/logout"), Req("profile", s, id))
               ELSE Reply(s, flashClearedA(s),
                          [render("profile", s, "provider/profile", flashLocalsA(s))
                             EXCEPT !.providers = <<users[id]>>],
                          Req("profile", s, id))
    /\ UNCHANGED <<rev, users, now, reqs>>

\* ------------------------------ revision sB: server.js, the second server
\* const baseCategories, as the array it is
baseCategoryList ==
    << <<"D","r","i","v","e","r">>, tPlumbing,
       <<"E","l","e","c","t","r","i","c","i","a","n">>,
       <<"G","a","r","d","e","n","i","n","g">>,
       <<"C","l","e","a","n","i","n","g">> >>

\* its entries, for baseCategories.includes(category)
baseCategories == Range(baseCategoryList)

\* the forms posted to /register: role, name and category
RegisterFormsB ==
    { [role |-> "provider", name |-> tJohnDoe, category |-> tPlumbing],
      [role |-> "provider", name |-> Empty, category |-> tPlumbing],
      [role |-> "user", name |-> Undef, category |-> Undef] }

\* POST /register
RegisterB(s, email, pw, f) ==
    /\ rev = "sB"
    /\ Cardinality(DOMAIN users) < MaxAccounts
    /\ LET id == NextId
           isProvider == f.role = "provider"
       IN IF isProvider /\ (~Truthy(f.name) \/ ~Truthy(f.category))
          THEN /\ Reply(s, [flashCleared(s) EXCEPT !.error = "Missing required fields."],
                        redirect("register", s, "/register"), Req("registerRejected", s, 0))
               /\ UNCHANGED users
          ELSE IF DuplicateKey(email)
          THEN /\ Reply(s, [flashCleared(s) EXCEPT !.error = "This email is already registered."],
                        redirect("register", s, "/register"),
                        [Req("registerFailed", s, 0) EXCEPT !.email = email])
               /\ UNCHANGED users
          ELSE /\ users' = users @@ (id :>
                     [NewDoc(id) EXCEPT !.email = email,
                                        !.password = bcryptHash(pw),
                                        !.role = f.role,
                                        !.name = IF isProvider THEN f.name ELSE tUser,
                                        !.category = IF isProvider THEN f.category ELSE Undef,
                                        !.description = Empty,
                                        !.profilePictureUrl = Empty])
               /\ Reply(s, [flashCleared(s) EXCEPT !.message = "Registration successful! Please log in."],
                        redirect("register", s, "/login"),
                        [Req("registered", s, 0) EXCEPT !.id = id, !.email = users'[id].email])
    /\ UNCHANGED <<rev, now, reqs>>

\* .select('-password'): the document without its password path
withoutPassword(d) == [d EXCEPT !.password = <<>>]

\* the documents of a set of ids as the views of sB receive them
RECURSIVE publicDocsOf(_, _)
publicDocsOf(ids, from) ==
    IF from > Cardinality(DOMAIN users) THEN <<>>
    ELSE (IF from \in ids THEN <<withoutPassword(users[from])>> ELSE <<>>)
         \o publicDocsOf(ids, from + 1)

\* the reviews that count as ratings: r.rating >= 1 && r.rating <= 5
ratingsOf(reviews) == SelectSeq(reviews, LAMBDA r : r.rating >= 1 /\ r.rating <= 5)

\* ratings.reduce((sum, r) => sum + r.rating, 0)
RECURSIVE totalRating(_)
totalRating(ratings) ==
    IF ratings = <<>> THEN 0 ELSE Head(ratings).rating + totalRating(Tail(ratings))

\* the decimal digits of a natural number
RECURSIVE natText(_)
natText(n) == IF n < 10 THEN <<Digits[n + 1]>> ELSE natText(n \div 10) \o <<Digits[(n % 10) + 1]>>

\* (mutation) the last decimal is cut, not rounded
toFixed1_cut(total, n) ==
    LET tenths == (10 * total) \div n
    IN natText(tenths \div 10) \o <<".">> \o natText(tenths % 10)

\* (total / n).toFixed(1) for total >= 0 and n > 0: the nearest number of
\* tenths, the larger one when two are as near, written with one decimal
toFixed1(total, n) ==
    LET tenths == (20 * total + n) \div (2 * n)
    IN natText(tenths \div 10) \o <<".">> \o natText(tenths % 10)

NA == <<"N","/","A">>

averageRating(reviews) ==
    LET ratings == ratingsOf(reviews)
    IN IF Len(ratings) > 0 THEN toFixed1(totalRating(ratings), Len(ratings)) ELSE NA

reviewCount(reviews) == Len(ratingsOf(reviews))

\* { ...p.toObject(), averageRating, reviewCount }
withStats(d) ==
    [averageRating |-> averageRating(d.reviews), reviewCount |-> reviewCount(d.reviews)] @@ d

\* parseFloat of a text written by toFixed(1), in tenths
parseFloatTenths(t) ==
    LET dot == CHOOSE i \in 1..Len(t) : t[i] = "."
    IN 10 * digitsValue(SubSeq(t, 1, dot - 1), 0) + digitsValue(SubSeq(t, dot + 1, Len(t)), 0)

\* the key of the sort of GET /, in tenths: 'N/A' counts as -1
sortRating(p) == IF p.averageRating = NA THEN -10 ELSE parseFloatTenths(p.averageRating)

\* Array.prototype.sort with (a, b) => ratingB - ratingA: descending by
\* rating, documents of equal rating keep their order
RECURSIVE insertByRating(_, _)
insertByRating(p, sorted) ==
    IF sorted = <<>> THEN <<p>>
    ELSE IF sortRating(Head(sorted)) >= sortRating(p)
         THEN <<Head(sorted)>> \o insertByRating(p, Tail(sorted))
         ELSE <<p>> \o sorted

RECURSIVE sortByRating(_, _)
sortByRating(ps, sorted) ==
    IF ps = <<>> THEN sorted ELSE sortByRating(Tail(ps), insertByRating(Head(ps), sorted))

\* providers.map(p => ...) of GET /
RECURSIVE providersWithStats(_)
providersWithStats(ps) ==
    IF ps = <<>> THEN <<>> ELSE <<withStats(Head(ps))>> \o providersWithStats(Tail(ps))

\* the query of GET /
homeMatches(d, category, search) ==
    /\ d.role = "provider"
    /\ (Truthy(category) /\ category \in baseCategories) => d.category = category
    /\ (Truthy(search) /\ Len(search) > 0) =>
           \/ regexTestI(search, d.name)
           \/ regexTestI(search, d.description)

\* GET /
HomeB(s, category, search) ==
    /\ rev = "sB"
    /\ Reply(s, flashCleared(s),
             [render("home", s, "index", flashLocals(s))
                EXCEPT !.providers = sortByRating(providersWithStats(
                          publicDocsOf({i \in DOMAIN users : homeMatches(users[i], category, search)}, 1)), <<>>),
                       !.categories = baseCategoryList],
             Req("home", s, 0))
    /\ UNCHANGED <<rev, users, now, reqs>>

\* the test of GET /provider/profile/:id
publicProfileFound(id) == id \in DOMAIN users /\ users[id].role = "provider"

\* GET /provider/profile/:id
PublicProfileB(s, id) ==
    /\ rev = "sB"
    /\ LET sess == [flashCleared(s) EXCEPT !.reviewMessage = "", !.reviewError = ""]
       IN IF id = 0 \/ ~publicProfileFound(id)
          THEN Reply(s, sess,
                     [render("publicProfile", s, "404", flashLocals(s)) EXCEPT !.status = 404],
                     Req("publicProfile", s, id))
          ELSE Reply(s, sess,
                     [render("publicProfile", s, "public-profile", flashLocals(s))
                        EXCEPT !.providers = <<withStats(withoutPassword(users[id]))>>],
                     Req("publicProfile", s, id))
    /\ UNCHANGED <<rev, users, now, reqs>>

\* (mutation) the rating without its upper limit
ratingValue_unlimited(rating) ==
    LET n == parseInt(rating)
    IN IF n.nan THEN 0 ELSE n.val

\* let ratingValue = parseInt(rating, 10) || 0;  if (ratingValue > 5) ratingValue = 5
ratingValue(rating) ==
    LET n == parseInt(rating)
        v == IF n.nan THEN 0 ELSE n.val
    IN IF v > 5 THEN 5 ELSE v

\* (mutation) the test without its trim() clauses
reviewRejected_untrimmed(f) == ~Truthy(f.visitorName) \/ ~Truthy(f.comment)

\* the test that rejects a review form
reviewRejected(f) ==
    \/ ~Truthy(f.visitorName)
    \/ ~Truthy(f.comment)
    \/ Len(trim(f.visitorName)) = 0
    \/ Len(trim(f.comment)) = 0

ReviewForms ==
    { [visitorName |-> tBob, rating |-> <<"7">>, comment |-> tGreat],
      [visitorName |-> tBob, rating |-> <<"a","b","c">>, comment |-> tGreat],
      [visitorName |-> tBob, rating |-> <<"4">>, comment |-> tGreat],
      [visitorName |-> tBob, rating |-> <<"-","3">>, comment |-> tGreat],
      [visitorName |-> tBob, rating |-> Undef, comment |-> tGreat],
      [visitorName |-> tBob, rating |-> <<"1","0">>, comment |-> tGreat],
      [visitorName |-> Undef, rating |-> <<"4">>, comment |-> tGreat],
      [visitorName |-> tBlank, rating |-> <<"4">>, comment |-> tGreat],
      [visitorName |-> tBob, rating |-> <<"4">>, comment |-> Empty],
      [visitorName |-> tBob, rating |-> <<"4">>, comment |-> tBlank] }

\* POST /login
LoginB(s, email, pw) ==
    /\ rev = "sB"
    /\ LET found == findOneByEmail(email)
           fail == [flashCleared(s) EXCEPT !.error = "Invalid email or password."]
       IN IF found = {}
          THEN Reply(s, fail, redirect("login", s, "/login"), LoginReq("loginFailed", s, 0, email, pw))
          ELSE LET id == CHOOSE i \in found : TRUE
               IN IF ~bcryptCompare(pw, users[id].password)
                  THEN Reply(s, fail, redirect("login", s, "/login"), LoginReq("loginFailed", s, id, email, pw))
                  ELSE Reply(s, [flashCleared(s) EXCEPT !.isLoggedIn = TRUE,
                                                        !.userId = id,
                                                        !.role = users[id].role,
                                                        !.userName = users[id].name,
                                                        !.message = "Welcome back, ${user.name}!"],
                             redirect("login", s,
                                      IF users[id].role = "provider" THEN "/provider/dashboard" ELSE "/"),
                             LoginReq("login", s, id, email, pw))
    /\ UNCHANGED <<rev, users, now, reqs>>

\* GET /logout
LogoutB(s) ==
    /\ rev = "sB"
    /\ Reply(s, NoSession, redirect("logout", s, "/"), Req("logout", s, sessions[s].userId))
    /\ UNCHANGED <<rev, users, now, reqs>>

ensureProviderAuth(s) == sessions[s].isLoggedIn /\ sessions[s].role = "provider"

\* ensureProviderAuth's refusal
DenyProvider(op, s) ==
    Reply(s, [flashCleared(s) EXCEPT !.error = "You must be logged in as a Provider to access this page."],
          redirect(op, s, "/login"), Req(op, s, 0))

\* GET /provider/profile
ProfileGetB(s) ==
    /\ rev = "sB"
    /\ IF ~ensureProviderAuth(s)
       THEN DenyProvider("profile", s)
       ELSE LET id == sessions[s].userId
            IN IF ~publicProfileFound(id)
               THEN Reply(s, [flashCleared(s) EXCEPT !.error = "Your provider account could not be found."],
                          redirect("profile", s, "/"), Req("profile", s, id))
               ELSE Reply(s, flashCleared(s),
                          [render("profile", s, "provider-profile", flashLocals(s))
                             EXCEPT !.providers = <<withoutPassword(users[id])>>],
                          Req("profile", s, id))
    /\ UNCHANGED <<rev, users, now, reqs>>

\* the forms a browser posts to /provider/profile
EditFormsB ==
    { [name |-> tAnn, category |-> tPlumbing, contactInfo |-> tPhone,
       description |-> tjohn, profilePictureUrl |-> Empty],
      [name |-> Empty, category |-> tPlumbing, contactInfo |-> tPhone,
       description |-> Empty, profilePictureUrl |-> Empty] }

\* (mutation) the update replaces the document: the paths the form lacks
\* are lost
editUpdateB_replace(d, f) ==
    [NewDoc(d._id) EXCEPT !.name = f.name, !.category = f.category,
                          !.contactInfo = f.contactInfo, !.description = f.description,
                          !.profilePictureUrl = f.profilePictureUrl]

\* what findByIdAndUpdate of POST /provider/profile writes
editUpdateB(d, f) ==
    [d EXCEPT !.name = f.name, !.category = f.category, !.contactInfo = f.contactInfo,
              !.description = f.description, !.profilePictureUrl = f.profilePictureUrl]

\* POST /provider/profile
EditB(s, f) ==
    /\ rev = "sB"
    /\ LET id == sessions[s].userId
       IN IF ~ensureProviderAuth(s)
          THEN DenyProvider("edit", s) /\ UNCHANGED users
          ELSE IF id \notin DOMAIN users
          THEN /\ Reply(s, [flashCleared(s) EXCEPT !.error = "Profile update failed. Provider not found."],
                        redirect("edit", s, "/provider/dashboard"), Req("editFailed", s, id))
               /\ UNCHANGED users
          ELSE /\ users' = [users EXCEPT ![id] = editUpdateB(@, f)]
               /\ Reply(s, [flashCleared(s) EXCEPT !.userName = f.name,
                                                   !.message = "Your profile has been successfully updated!"],
                        redirect("edit", s, "/provider/dashboard"), Req("edit", s, id))
    /\ UNCHANGED <<rev, now, reqs>>

\* GET /provider/dashboard
DashboardB(s) ==
    /\ rev = "sB"
    /\ IF ~ensureProviderAuth(s)
       THEN DenyProvider("dashboard", s)
       ELSE LET id == sessions[s].userId
            IN IF id \notin DOMAIN users
               THEN Reply(s, [flashCleared(s) EXCEPT !.error = "Your provider account could not be found."],
                          redirect("dashboard", s, "/"), Req("dashboard", s, id))
               ELSE Reply(s, flashCleared(s),
                          [render("dashboard", s, "provider-dashboard", flashLocals(s))
                             EXCEPT !.providers = <<withStats(withoutPassword(users[id]))>>],
                          Req("dashboard", s, id))
    /\ UNCHANGED <<rev, users, now, reqs>>

\* POST /forgot-password
ForgotB(s, email) ==
    /\ rev = "sB"
    /\ Reply(s, [flashCleared(s) EXCEPT !.message = forgotMessage(findOneByEmail(email))],
             redirect("forgot", s, "/forgot-password"),
             [Req("forgot", s, 0) EXCEPT !.email = email])
    /\ UNCHANGED <<rev, users, now, reqs>>

\* the reviews held by the store and by the requests that await their save
RECURSIVE storedReviews(_)
storedReviews(ids) ==
    IF ids = {} THEN 0
    ELSE LET i == CHOOSE j \in ids : TRUE
         IN Len(users[i].reviews) + storedReviews(ids \ {i})

reviewsInHand == storedReviews(DOMAIN users) + Cardinality({r \in Reqs : reqs[r].op = "review"})

\* POST /provider/review/:id up to its await of provider.save(): the form
\* is tested, the provider is read and the new entry is made
ReviewB(s, id, f) ==
    /\ rev = "sB"
    /\ LET back == redirect("review", s, "/provider/profile/:id")
       IN IF reviewRejected(f)
          THEN /\ Reply(s, [flashCleared(s) EXCEPT !.reviewError = "Name and comment are required."],
                        back, Req("reviewRejected", s, id))
               /\ UNCHANGED reqs
          ELSE IF id = 0
          THEN /\ Reply(s, [flashCleared(s) EXCEPT !.reviewError = "An error occurred while submitting your feedback."],
                        back, Req("reviewFailed", s, id))
               /\ UNCHANGED reqs
          ELSE IF ~publicProfileFound(id)
          THEN /\ Reply(s, [flashCleared(s) EXCEPT !.reviewError = "Provider not found."],
                        back, Req("reviewFailed", s, id))
               /\ UNCHANGED reqs
          ELSE /\ reviewsInHand < MaxReviews
               /\ reqs' = [reqs EXCEPT ![FreeSlot] =
                     [op |-> "review", sess |-> s, error |-> "", message |-> "", doc |-> users[id],
                      review |-> [visitorName |-> f.visitorName, rating |-> ratingValue(f.rating),
                                  comment |-> f.comment, date |-> now]]]
               /\ sessions' = [sessions EXCEPT ![s] = flashCleared(s)]
               /\ last' = Req("reviewBegin", s, id)
               /\ UNCHANGED resp
    /\ UNCHANGED <<rev, users, now>>

\* (mutation) reviews.unshift in place of reviews.push
pushReview_unshift(reviews, r) == <<r>> \o reviews

\* provider.reviews.push({...})
pushReview(reviews, r) == Append(reviews, r)

\* (mutation) the save writes the array as the request read it
savedReviews_overwrite(stored, doc, r) == pushReview(doc.reviews, r)

\* what provider.save() writes after a push: the update { $push: { reviews } }
\* applied to the array the store holds then
savedReviews(stored, doc, r) == pushReview(stored.reviews, r)

\* the validation provider.save() runs on the document in hand: name is
\* required for a provider
validProvider(d) == d.role = "provider" => Truthy(d.name)

\* POST /provider/review/:id from provider.save() on
ReviewSave(r) ==
    /\ rev = "sB"
    /\ reqs[r].op = "review"
    /\ LET s == reqs[r].sess
           d == reqs[r].doc
           id == d._id
           back == redirect("review", s, "/provider/profile/:id")
       IN IF ~validProvider(d)
          THEN /\ Reply(s, [sessions[s] EXCEPT !.reviewError = "An error occurred while submitting your feedback."],
                        back, Req("reviewFailed", s, id))
               /\ UNCHANGED users
          ELSE /\ users' = [users EXCEPT ![id].reviews = savedReviews(users[id], d, reqs[r].review)]
               /\ Reply(s, [sessions[s] EXCEPT !.reviewMessage =
                              IF reqs[r].review.rating > 0
                              THEN "Thank you for your review! It has been posted."
                              ELSE "Thank you for your inquiry. The provider will be in touch!"],
                        back, [Req("review", s, id) EXCEPT !.read = <<d>>])
    /\ reqs' = [reqs EXCEPT ![r] = NoReq]
    /\ UNCHANGED <<rev, now>>

\* ------------------------------------------------------- specifications
\* The requests of visitors and of registration, for every revision.  The
\* review forms posted here all carry the rating "4".
NextA ==
    \/ \E s \in Sessions, e \in Emails, n \in NamesA : RegisterBeginA(s, e, "pw1", n)
    \/ \E r \in Reqs : RegisterSaveA(r)
    \/ \E s \in Sessions, id \in PathIds : ViewA(s, id)

NextB ==
    \/ \E s \in Sessions, e \in Emails, f \in RegisterFormsB : RegisterB(s, e, "pw1", f)
    \/ \E s \in Sessions, c \in SearchCategories, q \in SearchTexts : HomeB(s, c, q)
    \/ \E s \in Sessions, id \in PathIds : PublicProfileB(s, id)
    \/ \E s \in Sessions, id \in PathIds, f \in {g \in ReviewForms : g.rating = <<"4">>} :
          ReviewB(s, id, f)
    \/ \E r \in Reqs : ReviewSave(r)

NextP0 ==
    \/ \E s \in Sessions, e \in Emails, f \in ProfileForms : RegisterBegin(s, e, "pw1", f)
    \/ \E r \in Reqs : RegisterSave(r)
    \/ \E s \in Sessions, e \in Emails, pw \in Passwords : Login(s, e, pw)
    \/ \E s \in Sessions : Logout(s)
    \/ \E s \in Sessions : Profile(s)
    \/ \E s \in Sessions, f \in ProfileForms : Edit(s, f)
    \/ \E s \in Sessions : Activate(s)
    \/ \E s \in Sessions, id \in PathIds : View(s, id)
    \/ \E s \in Sessions, q \in SearchTexts, c \in SearchCategories : Search(s, q, c, TRUE)

Next == Tick \/ NextP0 \/ NextA \/ NextB

Spec == Init /\ [][Next]_vars

\* The requests of account owners, for every revision: registration, login
\* and logout, the owner's pages, the profile edit, the activation and the
\* password reminder.
OwnerP0 ==
    \/ \E s \in Sessions, e \in Emails, f \in ProfileForms : RegisterBegin(s, e, "pw1", f)
    \/ \E r \in Reqs : RegisterSave(r)
    \/ \E s \in Sessions, e \in Emails, pw \in Passwords : Login(s, e, pw)
    \/ \E s \in Sessions : Logout(s)
    \/ \E s \in Sessions : Profile(s)
    \/ \E s \in Sessions, f \in ProfileForms : Edit(s, f)
    \/ \E s \in Sessions : Activate(s)
    \/ \E s \in Sessions : EditPage(s)
    \/ \E s \in Sessions : SubscribePage(s)
    \/ \E s \in Sessions, e \in Emails : Forgot(s, e)

OwnerA ==
    \/ \E s \in Sessions, e \in Emails, n \in NamesA : RegisterBeginA(s, e, "pw1", n)
    \/ \E r \in Reqs : RegisterSaveA(r)
    \/ \E s \in Sessions, e \in Emails, pw \in Passwords : LoginA(s, e, pw)
    \/ \E s \in Sessions : LogoutA(s)
    \/ \E s \in Sessions : ProfileA(s)

OwnerB ==
    \/ \E s \in Sessions, e \in Emails, f \in RegisterFormsB : RegisterB(s, e, "pw1", f)
    \/ \E s \in Sessions, e \in Emails, pw \in Passwords : LoginB(s, e, pw)
    \/ \E s \in Sessions : LogoutB(s)
    \/ \E s \in Sessions : ProfileGetB(s)
    \/ \E s \in Sessions, f \in EditFormsB : EditB(s, f)
    \/ \E s \in Sessions : DashboardB(s)
    \/ \E s \in Sessions, e \in Emails : ForgotB(s, e)

NextOwner == Tick \/ OwnerP0 \/ OwnerA \/ OwnerB

SpecOwner == Init /\ [][NextOwner]_vars

\* The second server under review traffic: accounts register, visitors
\* post reviews with every kind of rating and read the public profiles.
InitB == Init /\ rev = "sB"

NextReviews ==
    \/ \E s \in Sessions, e \in Emails, f \in RegisterFormsB : RegisterB(s, e, "pw1", f)
    \/ \E s \in Sessions, id \in PathIds, f \in ReviewForms : ReviewB(s, id, f)
    \/ \E r \in Reqs : ReviewSave(r)
    \/ \E s \in Sessions, id \in PathIds : PublicProfileB(s, id)

SpecReviews == InitB /\ [][NextReviews]_vars

\* The second server with reviews racing each other and the owner's profile
\* edit: the review forms posted here carry the ratings "4" and "7".
NextRace ==
    \/ \E s \in Sessions, e \in Emails, f \in RegisterFormsB : RegisterB(s, e, "pw1", f)
    \/ \E s \in Sessions, e \in Emails : LoginB(s, e, "pw1")
    \/ \E s \in Sessions, f \in EditFormsB : EditB(s, f)
    \/ \E s \in Sessions, id \in PathIds, f \in {g \in ReviewForms : g.rating \in {<<"4">>, <<"7">>}} :
          ReviewB(s, id, f)
    \/ \E r \in Reqs : ReviewSave(r)

SpecRace == InitB /\ [][NextRace]_vars

\* The rating summary over every short sequence of stored ratings: one
\* provider of the second server holds the reviews, its owner is logged in,
\* and the three pages that show the summary are read.
MaxSummary == 4

SummaryRatings == {-3, 0, 1, 2, 4, 5}

reviewRated(r) == [visitorName |-> tBob, rating |-> r, comment |-> tGreat, date |-> 0]

\* the account POST /register of the second server stores for John Doe
seedB ==
    [NewDoc(1) EXCEPT !.email = "a@x.io", !.password = bcryptHash("pw1"),
                      !.name = tJohnDoe, !.category = tPlumbing,
                      !.description = Empty, !.profilePictureUrl = Empty]

\* the session POST /login of the second server leaves for an account
loggedInB(d) ==
    [NoSession EXCEPT !.isLoggedIn = TRUE, !.userId = d._id, !.role = d.role,
                      !.userName = d.name]

InitSummary ==
    /\ rev = "sB"
    /\ \E n \in 0..MaxSummary : \E rs \in [1..n -> SummaryRatings] :
          users = (1 :> [seedB EXCEPT !.reviews = [k \in 1..n |-> reviewRated(rs[k])]])
    /\ sessions = [s \in Sessions |-> loggedInB(seedB)]
    /\ now = 0
    /\ reqs = [r \in Reqs |-> NoReq]
    /\ resp = NoResp
    /\ last = NoLast

NextSummary ==
    \/ \E s \in Sessions, c \in SearchCategories, q \in SearchTexts : HomeB(s, c, q)
    \/ \E s \in Sessions, id \in PathIds : PublicProfileB(s, id)
    \/ \E s \in Sessions : DashboardB(s)

SpecSummary == InitSummary /\ [][NextSummary]_vars

\* A session that outlived its account: the database is a service of its
\* own, and a document removed there leaves the sessions that name it.  One
\* account is registered; the session names an account that is gone.
StaleId == MaxAccounts + 1

seedP0 ==
    [NewDoc(1) EXCEPT !.email = "a@x.io", !.password = bcryptHash("pw1"),
                      !.name = tJohnDoe, !.category = tPlumbing,
                      !.contactInfo = tPhone, !.trialStartDate = 0]

seedA ==
    [NewDoc(1) EXCEPT !.email = "a@x.io", !.password = bcryptHash("pw1"),
                      !.name = tJohnDoe, !.category = tGeneral,
                      !.contactInfo = Empty, !.createdAt = 0]

InitStale ==
    /\ rev \in Revisions
    /\ users = (1 :> (IF rev = "p0" THEN seedP0 ELSE IF rev = "sA" THEN seedA ELSE seedB))
    /\ sessions = [s \in Sessions |->
                     IF rev = "sB"
                     THEN [loggedInB(seedB) EXCEPT !.userId = StaleId]
                     ELSE [NoSession EXCEPT !.userId = StaleId]]
    /\ now = 0
    /\ reqs = [r \in Reqs |-> NoReq]
    /\ resp = NoResp
    /\ last = NoLast

NextStale ==
    \/ \E s \in Sessions, e \in Emails, pw \in Passwords : Login(s, e, pw)
    \/ \E s \in Sessions : Logout(s)
    \/ \E s \in Sessions : Profile(s)
    \/ \E s \in Sessions, f \in ProfileForms : Edit(s, f)
    \/ \E s \in Sessions : Activate(s)
    \/ \E s \in Sessions : EditPage(s)
    \/ \E s \in Sessions : SubscribePage(s)
    \/ \E s \in Sessions, e \in Emails, pw \in Passwords : LoginA(s, e, pw)
    \/ \E s \in Sessions : LogoutA(s)
    \/ \E s \in Sessions : ProfileA(s)
    \/ \E s \in Sessions, e \in Emails, pw \in Passwords : LoginB(s, e, pw)
    \/ \E s \in Sessions : LogoutB(s)
    \/ \E s \in Sessions : ProfileGetB(s)
    \/ \E s \in Sessions, f \in EditFormsB : EditB(s, f)
    \/ \E s \in Sessions : DashboardB(s)

SpecStale == InitStale /\ [][NextStale]_vars

\* The requests that may touch who a session is: registrations, logins,
\* logouts and password reminders of the three programs, and the reviews of
\* the second server.
NextAuth ==
    \/ \E s \in Sessions, e \in Emails, f \in ProfileForms : RegisterBegin(s, e, "pw1", f)
    \/ \E r \in Reqs : RegisterSave(r)
    \/ \E s \in Sessions, e \in Emails, pw \in Passwords : Login(s, e, pw)
    \/ \E s \in Sessions : Logout(s)
    \/ \E s \in Sessions, e \in Emails : Forgot(s, e)
    \/ \E s \in Sessions, e \in Emails, n \in NamesA : RegisterBeginA(s, e, "pw1", n)
    \/ \E r \in Reqs : RegisterSaveA(r)
    \/ \E s \in Sessions, e \in Emails, pw \in Passwords : LoginA(s, e, pw)
    \/ \E s \in Sessions : LogoutA(s)
    \/ \E s \in Sessions, e \in Emails, f \in RegisterFormsB : RegisterB(s, e, "pw1", f)
    \/ \E s \in Sessions, e \in Emails, pw \in Passwords : LoginB(s, e, pw)
    \/ \E s \in Sessions : LogoutB(s)
    \/ \E s \in Sessions, e \in Emails : ForgotB(s, e)
    \/ \E s \in Sessions, id \in PathIds, f \in {g \in ReviewForms : g.rating = <<"4">>} :
          ReviewB(s, id, f)
    \/ \E r \in Reqs : ReviewSave(r)

SpecAuth == Init /\ [][NextAuth]_vars

\* The search pages over every small store: the accounts are there before the
\* first request (registered, edited and subscribed earlier), and the search
\* pages of the three programs are read with texts and categories of every
\* kind, the store answering or failing.
MaxStore == 2

SeedEmails == <<"a@x.io", "b@x.io", "c@x.io", "d@x.io">>

tJohn == <<"J","o","h","n">>
tplumb == <<"p","l","u","m","b">>
tTilingC == <<"T","i","l","i","n","g">>
tplumbing == <<"p","l","u","m","b","i","n","g">>
tCalljohn == <<"C","a","l","l"," ","j","o","h","n">>

AllSearchTexts == {Undef, Empty, tjohn, tJohn, tplumb}
AllSearchCategories == {Undef, tAllCategories, tPlumbing, tplumbing, tTilingC}

\* the accounts a store of each program can hold after registrations,
\* profile updates and activations
searchSeeds ==
    IF rev = "p0"
    THEN {[seedP0 EXCEPT !.name = n, !.category = c, !.isSubscribed = b] :
             n \in {tJohnDoe, tAnn}, c \in {tPlumbing, tTilingC, tBlank}, b \in BOOLEAN}
    ELSE IF rev = "sA"
    THEN {[seedA EXCEPT !.name = n, !.category = c] :
             n \in {tJohnDoe, tAnn}, c \in {tGeneral, tPlumbing, tBlank}}
    ELSE {[seedB EXCEPT !.name = n, !.category = c, !.description = d] :
             n \in {tJohnDoe, tAnn}, c \in {tPlumbing, tTilingC}, d \in {Empty, tCalljohn}}
         \cup {[seedB EXCEPT !.role = "user", !.name = tUser, !.category = Undef]}

InitSearch ==
    /\ rev \in Revisions
    /\ \E n \in 0..MaxStore : \E f \in [1..n -> searchSeeds] :
          users = [i \in 1..n |-> [f[i] EXCEPT !._id = i, !.email = SeedEmails[i]]]
    /\ sessions = [s \in Sessions |-> NoSession]
    /\ now = 0
    /\ reqs = [r \in Reqs |-> NoReq]
    /\ resp = NoResp
    /\ last = NoLast

NextSearch ==
    \/ \E s \in Sessions, q \in AllSearchTexts, c \in AllSearchCategories, up \in BOOLEAN :
          Search(s, q, c, up)
    \/ \E s \in Sessions, q \in AllSearchTexts, c \in AllSearchCategories, up \in BOOLEAN :
          SearchA(s, q, c, up)
    \/ \E s \in Sessions, q \in AllSearchTexts, c \in AllSearchCategories :
          HomeB(s, c, q)

SpecSearch == InitSearch /\ [][NextSearch]_vars

\* ================================================================= claims

\* the account a profile page or a public profile shows
Shown == resp.providers[1]

\* C1: search never returns an account that is not subscribed: every
\* account listed by GET /search or by the home listing GET / has
\* isSubscribed = true, whatever the text and the category asked for.
C1_SearchListsOnlySubscribed ==
    (resp.op \in {"search", "home"} /\ resp.kind = "render") =>
        \A i \in 1..Len(resp.providers) : resp.providers[i].isSubscribed = TRUE

\* C2: the public profile by id is rendered only for an account with
\* isSubscribed = true; an absent id or an unsubscribed account gets a
\* not-found outcome.
C2_PublicViewOnlySubscribed ==
    (resp.op \in {"view", "publicProfile"} /\ resp.view = "public-profile") =>
        (Len(resp.providers) = 1 /\ Shown.isSubscribed = TRUE)

\* C3: registering a second account with an email already registered, in
\* sequence or interleaved with the first registration, fails: no two
\* accounts ever share an email, the attempt that meets the existing email
\* is answered with a failure, and it leaves every account as it was.
C3_DuplicateEmailRefused ==
    /\ [](\A i, j \in DOMAIN users : i # j => users[i].email # users[j].email)
    /\ [][\A r \in Reqs :
            ( /\ reqs[r].op \in {"register", "registerA"}
              /\ reqs'[r] = NoReq
              /\ \E i \in DOMAIN users : users[i].email = reqs[r].doc.email )
            => (users' = users /\ last'.op = "registerFailed")]_vars
    /\ [][last'.op = "registerFailed" =>
            ( /\ users' = users
              /\ resp'.to # "/provider/profile" /\ resp'.to # "/login"
              /\ sessions'[last'.sess].userId = sessions[last'.sess].userId )]_vars

\* C3 witness: two registrations of one email overlapped in sA (both passed
\* the findOne test), one was saved and the other was refused by the store.
C3_Witness ==
    /\ rev = "sA"
    /\ last.op = "registerFailed"
    /\ sessions[last.sess].error_msg = "Server error during registration."
    /\ \E i \in DOMAIN users : users[i].email = last.email /\ Truthy(users[i].name)

\* C4: activateSubscription is idempotent: after a call the account is
\* subscribed and the call reports success; a call on an account already
\* subscribed leaves the account exactly as it was.
C4_ActivateIdempotent ==
    (last.op = "activate" /\ last.before # <<>>) =>
        LET b == last.before[1]
            a == users[last.id]
        IN /\ a = [b EXCEPT !.isSubscribed = TRUE]
           /\ b.isSubscribed => a = b
           /\ resp.kind = "redirect" /\ resp.to = "/provider/profile"
           /\ sessions[last.sess].error = ""
           /\ sessions[last.sess].message =
                "Subscription successfully activated! Your profile is now visible in search results."

\* C4 witness: a second activation, of an account already subscribed.
C4_Witness ==
    /\ last.op = "activate"
    /\ last.before # <<>>
    /\ last.before[1].isSubscribed

\* C5: subscription is one-way: no step takes isSubscribed of an account
\* from true back to false.
C5_SubscriptionOneWay ==
    [][\A i \in DOMAIN users :
          users[i].isSubscribed => (i \in DOMAIN users' /\ users'[i].isSubscribed)]_vars

\* C5 witness: the owner has edited the profile of a subscribed account.
C5_Witness ==
    /\ last.op = "edit"
    /\ last.before # <<>>
    /\ last.before[1].isSubscribed
    /\ users[last.id] # last.before[1]

\* C6: trialStartDate is set once, to the time of creation, and no step
\* changes it afterwards.
C6_TrialStartDateFixed ==
    [][ /\ \A i \in DOMAIN users :
             i \in DOMAIN users' /\ users'[i].trialStartDate = users[i].trialStartDate
        /\ \A i \in DOMAIN users' \ DOMAIN users :
             rev = "p0" => users'[i].trialStartDate = now ]_vars

\* C6 witness: an account created earlier has just been activated.
C6_Witness ==
    /\ last.op = "activate"
    /\ last.before # <<>>
    /\ users[last.id].trialStartDate # NoDate
    /\ users[last.id].trialStartDate < now

\* the profile page of the owner is on display
ProfileShown == rev = "p0" /\ last.op = "profile" /\ resp.view = "provider/profile"

\* C8: once the clock has reached trialStartDate + 7 days the trial never
\* comes back: the window stays elapsed across every step, and a profile
\* page rendered when it has elapsed shows isTrialActive = false.
C8_TrialStaysOver ==
    /\ [][\A i \in DOMAIN users :
            now >= users[i].trialStartDate + 7 * ONE_DAY_MS =>
                ( /\ i \in DOMAIN users'
                  /\ now' >= users'[i].trialStartDate + 7 * ONE_DAY_MS )]_vars
    /\ [](ProfileShown /\ now >= Shown.trialStartDate + 7 * ONE_DAY_MS
            => ~resp.isTrialActive)

\* C8 witness: the profile page of an unsubscribed account rendered later
\* than trialStartDate + 7 days, after a second account was registered.
C8_Witness ==
    /\ ProfileShown
    /\ ~Shown.isSubscribed
    /\ Cardinality(DOMAIN users) = 2
    /\ now > Shown.trialStartDate + 7 * ONE_DAY_MS
    /\ ~resp.isTrialActive

\* a text that is missing or empty once trimmed
Blank(t) == t = Undef \/ \A i \in 1..Len(t) : t[i] \in {" ", "\t", "\n"}

\* C10: a review whose visitorName or comment is missing or empty after
\* trimming is refused with the validation error and changes no account,
\* whatever its rating and target id.
C10_BlankReviewRefused ==
    [][\A s \in Sessions, id \in PathIds, f \in ReviewForms :
          (ReviewB(s, id, f) /\ (Blank(f.visitorName) \/ Blank(f.comment))) =>
              ( /\ users' = users
                /\ sessions'[s].reviewError = "Name and comment are required."
                /\ sessions'[s].reviewMessage = sessions[s].reviewMessage )]_vars

\* C10 witness: a review with a blank field was refused for an existing
\* provider that a valid review would have reached.
C10_Witness ==
    /\ last.op = "reviewRejected"
    /\ last.before # <<>>
    /\ last.before[1].role = "provider"
    /\ users[last.id] = last.before[1]
    /\ sessions[last.sess].reviewError = "Name and comment are required."

\* ----------------------------------------------- the trial policy by day
MaxDays == 8

\* clock readings around every day boundary
DayInstants == {t \in {d * ONE_DAY_MS + j : d \in 0..MaxDays, j \in {-1, 0, 1}} : t >= 0}

\* one account registered at any of the instants by the form of revision
\* p0, its owner logged in
InitTrial ==
    /\ rev = "p0"
    /\ \E t \in DayInstants :
          /\ now = t
          /\ users = (1 :> [NewDoc(1) EXCEPT !.email = "a@x.io",
                                             !.password = bcryptHash("pw1"),
                                             !.name = tJohnDoe,
                                             !.category = tPlumbing,
                                             !.contactInfo = tPhone,
                                             !.trialStartDate = t])
    /\ sessions = [s \in Sessions |-> [NoSession EXCEPT !.userId = 1]]
    /\ reqs = [r \in Reqs |-> NoReq]
    /\ resp = redirect("register", 1, "/provider/profile")
    /\ last = [Req("registered", 1, 0) EXCEPT !.id = 1, !.email = "a@x.io"]

\* time passes, day by day
TickDay ==
    /\ \E t \in DayInstants : t > now /\ now' = t
    /\ resp' = NoResp
    /\ last' = NoLast
    /\ UNCHANGED <<rev, users, sessions, reqs>>

NextTrial ==
    \/ TickDay
    \/ \E s \in Sessions : Profile(s)
    \/ \E s \in Sessions : Activate(s)

SpecTrial == InitTrial /\ [][NextTrial]_vars

\* C7: on the owner's profile page isTrialActive is true exactly when the
\* account is not subscribed and the time of the request is strictly
\* before trialStartDate + 7 days.
C7_TrialActiveIff ==
    ProfileShown =>
        (resp.isTrialActive <=>
            (Shown.isSubscribed = FALSE /\ now < Shown.trialStartDate + 7 * ONE_DAY_MS))

\* C7 witness: an unsubscribed account's page rendered at exactly
\* trialStartDate + 7 days shows the trial as over.
C7_Witness ==
    /\ ProfileShown
    /\ ~Shown.isSubscribed
    /\ now = Shown.trialStartDate + 7 * ONE_DAY_MS
    /\ ~resp.isTrialActive

\* C9: daysLeft is the ceiling of the time left in the window over one day
\* while the trial is active (the least n with n days >= the time left, an
\* integer from 1 to 7), and 0 when the account is subscribed or the window
\* has elapsed.
C9_DaysLeftCeiling ==
    ProfileShown =>
        LET left == Shown.trialStartDate + 7 * ONE_DAY_MS - now
        IN IF ~Shown.isSubscribed /\ left > 0
           THEN /\ resp.daysLeft \in 1..7
                /\ resp.daysLeft * ONE_DAY_MS >= left
                /\ (resp.daysLeft - 1) * ONE_DAY_MS < left
           ELSE resp.daysLeft = 0

\* C9 witness: with one millisecond more than three days left, four days
\* are shown.
C9_Witness ==
    /\ ProfileShown
    /\ ~Shown.isSubscribed
    /\ Shown.trialStartDate + 7 * ONE_DAY_MS - now = 3 * ONE_DAY_MS + 1
    /\ resp.daysLeft = 4

\* ------------------------------------------------ reviews and ratings
\* C11: every rating stored in an account's reviews lies in 0..5, whatever
\* ratings the review forms carried (negative, above 5, not a number).
C11_RatingsInRange ==
    \A i \in DOMAIN users : \A k \in 1..Len(users[i].reviews) :
        users[i].reviews[k].rating \in 0..5

\* a text made of decimal digits only
DigitsOnly(t) == t # Undef /\ Len(t) > 0 /\ \A i \in 1..Len(t) : isDigit(t[i])

\* a text with no digit in it, or no text at all
NoNumber(t) == t = Undef \/ \A i \in 1..Len(t) : ~isDigit(t[i])

\* C12: an accepted review stores 5 for an integer rating above 5, 0 for a
\* rating that is missing or not a number, and the integer itself for a
\* rating in 1..5; the entry saved carries the rating so computed.
C12_RatingStored ==
    /\ [][\A s \in Sessions, id \in PathIds, f \in ReviewForms :
            (reqs' # reqs /\ ReviewB(s, id, f)) =>
                \E r \in Reqs :
                    /\ reqs[r] = NoReq
                    /\ reqs'[r].op = "review"
                    /\ LET n == reqs'[r].review.rating
                       IN /\ (DigitsOnly(f.rating) /\ digitsValue(f.rating, 0) > 5) => n = 5
                          /\ (DigitsOnly(f.rating) /\ digitsValue(f.rating, 0) \in 1..5)
                                => n = digitsValue(f.rating, 0)
                          /\ NoNumber(f.rating) => n = 0]_vars
    /\ [][\A r \in Reqs :
            (last'.op = "review" /\ ReviewSave(r)) =>
                LET after == users'[reqs[r].doc._id].reviews
                IN after[Len(after)].rating = reqs[r].review.rating]_vars

\* C12 witness: a review posted with a rating above 5 has been saved with
\* rating 5.
C12_Witness ==
    /\ last.op = "review"
    /\ LET rs == users[last.id].reviews IN rs[Len(rs)].rating = 5

\* the positions of the reviews that count as ratings
Counted(reviews) == {k \in 1..Len(reviews) : reviews[k].rating \in 1..5}

RECURSIVE SumOver(_, _)
SumOver(reviews, ks) ==
    IF ks = {} THEN 0
    ELSE LET k == CHOOSE j \in ks : TRUE
         IN reviews[k].rating + SumOver(reviews, ks \ {k})

RatingsOfAccount(id) == [k \in 1..Len(users[id].reviews) |-> users[id].reviews[k].rating]

\* the summary a page shows for an account is the one the claim describes
SummaryRight(p) ==
    LET rs == users[p._id].reviews
        n == Cardinality(Counted(rs))
        total == SumOver(rs, Counted(rs))
        a == p.averageRating
    IN /\ p.reviewCount = n
       /\ IF n = 0 THEN a = <<"N","/","A">>
          ELSE /\ Len(a) = 3 /\ isDigit(a[1]) /\ a[2] = "." /\ isDigit(a[3])
               /\ LET d == 10 * total - (10 * digitValue(a[1]) + digitValue(a[3])) * n
                  IN 2 * d <= n /\ 2 * d >= 0 - n
       /\ RatingsOfAccount(p._id) = <<0, 4, 2>> => (a = <<"3",".","0">> /\ p.reviewCount = 2)

\* C13: the rating summary counts exactly the reviews rated 1..5 and shows
\* their mean rounded to one decimal, or "N/A" with count 0 when none
\* qualifies; ratings 0, 4, 2 give 3.0 and 2; the home listing, the public
\* profile and the dashboard all show this summary for an account.
C13_RatingSummary ==
    (resp.op \in {"home", "publicProfile", "dashboard"} /\ resp.kind = "render") =>
        \A i \in 1..Len(resp.providers) : SummaryRight(resp.providers[i])

\* C13 witness: the dashboard of an account whose reviews are rated 0, 4, 2
\* shows 3.0 over 2 ratings.
C13_Witness ==
    /\ resp.op = "dashboard"
    /\ resp.view = "provider-dashboard"
    /\ RatingsOfAccount(Shown._id) = <<0, 4, 2>>
    /\ Shown.averageRating = <<"3",".","0">>
    /\ Shown.reviewCount = 2

\* C14: a review that succeeds appends exactly one entry {visitorName,
\* rating, comment, date} at the end of the provider's reviews: the request
\* makes the entry from its form and the time, changes nothing before its
\* save, and the save lengthens the sequence by that entry, keeps the
\* earlier entries in place and changes no other account and no other field.
C14_ReviewAppended ==
    /\ [][\A s \in Sessions, id \in PathIds, f \in ReviewForms :
            (reqs' # reqs /\ ReviewB(s, id, f)) =>
                /\ users' = users
                /\ \E r \in Reqs :
                      /\ reqs[r] = NoReq
                      /\ DOMAIN reqs'[r].review = {"visitorName", "rating", "comment", "date"}
                      /\ reqs'[r].review.visitorName = f.visitorName
                      /\ reqs'[r].review.comment = f.comment
                      /\ reqs'[r].review.date = now]_vars
    /\ [][\A r \in Reqs :
            (last'.op = "review" /\ ReviewSave(r)) =>
                LET id == reqs[r].doc._id
                    before == users[id].reviews
                    after == users'[id].reviews
                IN /\ Len(after) = Len(before) + 1
                   /\ \A k \in 1..Len(before) : after[k] = before[k]
                   /\ after[Len(after)] = reqs[r].review
                   /\ DOMAIN users' = DOMAIN users
                   /\ \A j \in DOMAIN users : j # id => users'[j] = users[j]
                   /\ [users'[id] EXCEPT !.reviews = before] = users[id]]_vars

\* C14 witness: a second review, made at a later time than the first, has
\* been saved for a provider while another account exists.
C14_Witness ==
    /\ last.op = "review"
    /\ Cardinality(DOMAIN users) = 2
    /\ LET rs == users[last.id].reviews
       IN Len(rs) = 2 /\ rs[1].date < rs[2].date

\* C15: no review is lost to a concurrent request: a save made from a
\* reading that the store has since moved on from (another review was saved,
\* or the owner edited the profile) keeps every entry the store holds and
\* adds its own, and keeps what the owner wrote; it is refused only when
\* the document it read had no name; the owner's edit never touches the
\* reviews or a review that awaits its save.
C15_NoLostReview ==
    /\ [][\A r \in Reqs :
            (reqs[r].op = "review" /\ reqs[r].doc # users[reqs[r].doc._id] /\ ReviewSave(r)) =>
                LET id == reqs[r].doc._id
                    before == users[id].reviews
                    after == users'[id].reviews
                IN IF reqs[r].doc.name \in {Empty, Undef}
                   THEN users' = users /\ last'.op = "reviewFailed"
                   ELSE /\ last'.op = "review"
                        /\ Len(after) = Len(before) + 1
                        /\ \A k \in 1..Len(before) : after[k] = before[k]
                        /\ after[Len(after)] = reqs[r].review
                        /\ users'[id].name = users[id].name
                        /\ users'[id].description = users[id].description]_vars
    /\ [][\A s \in Sessions, f \in EditFormsB :
            EditB(s, f) =>
                /\ reqs' = reqs
                /\ DOMAIN users' = DOMAIN users
                /\ \A i \in DOMAIN users : users'[i].reviews = users[i].reviews]_vars

\* C15 witness: two reviews were read before either was saved and the owner
\* renamed the profile meanwhile; both have been saved and both are there,
\* under the new name.
C15_Witness ==
    /\ last.op = "review"
    /\ last.read # <<>>
    /\ last.read[1].reviews = <<>>
    /\ last.read[1].name = tJohnDoe
    /\ users[last.id].name = tAnn
    /\ LET rs == users[last.id].reviews
       IN Len(rs) = 2 /\ rs[1].rating # rs[2].rating

\* --------------------------------------------------- owners and sessions
\* a request of session s to an operation that requires a login
GuardedBy(s) ==
    \/ Profile(s) \/ EditPage(s) \/ SubscribePage(s) \/ Activate(s)
    \/ \E f \in ProfileForms : Edit(s, f)
    \/ ProfileA(s)
    \/ ProfileGetB(s) \/ DashboardB(s)
    \/ \E f \in EditFormsB : EditB(s, f)

\* C16: a request to an operation that requires a login, from a session
\* that carries no user id, touches no account: it is redirected to the
\* login page, the session gets the error to show once and stays without a
\* user, no document is consulted and every account is as before.
C16_GuestTouchesNothing ==
    [][\A s \in Sessions :
          (sessions[s].userId = 0 /\ GuardedBy(s)) =>
              /\ users' = users
              /\ reqs' = reqs
              /\ resp'.kind = "redirect" /\ resp'.to = "/login"
              /\ resp'.providers = <<>>
              /\ last'.before = <<>> /\ last'.read = <<>>
              /\ sessions'[s].userId = 0 /\ ~sessions'[s].isLoggedIn
              /\ sessions'[s].error \in
                   IF rev = "p0" THEN {"You must be logged in to access that page."}
                   ELSE IF rev = "sB"
                   THEN {"You must be logged in as a Provider to access this page."}
                   ELSE {""}
              /\ rev = "sA" => sessions'[s].error_msg = "Please log in to view this resource."]_vars

\* C16 witness: an activation asked without a login was sent to the login
\* page while an unsubscribed account was in the store.
C16_Witness ==
    /\ last.op = "activate"
    /\ last.id = 0
    /\ resp.to = "/login"
    /\ sessions[last.sess].error = "You must be logged in to access that page."
    /\ \E i \in DOMAIN users : ~users[i].isSubscribed

\* a profile edit or an activation asked by session s
OwnerWrite(s) ==
    \/ Activate(s)
    \/ \E f \in ProfileForms : Edit(s, f)
    \/ \E f \in EditFormsB : EditB(s, f)

\* C17: an account is changed only by its owner: a profile edit or an
\* activation changes no account but the one the session names, and leaves
\* that one's email, password, trialStartDate and reviews (and, for an
\* edit, isSubscribed) as they were; no other request of these changes an
\* account at all.
C17_OwnerOnly ==
    /\ [][\A s \in Sessions :
            OwnerWrite(s) =>
                /\ DOMAIN users' = DOMAIN users
                /\ \A i \in DOMAIN users :
                      IF i # sessions[s].userId
                      THEN users'[i] = users[i]
                      ELSE /\ users'[i]._id = users[i]._id
                           /\ users'[i].email = users[i].email
                           /\ users'[i].password = users[i].password
                           /\ users'[i].trialStartDate = users[i].trialStartDate
                           /\ users'[i].reviews = users[i].reviews
                           /\ ~Activate(s) => users'[i].isSubscribed = users[i].isSubscribed]_vars
    /\ [][\A i \in DOMAIN users :
            (i \in DOMAIN users' /\ users'[i] # users[i]) =>
                \E s \in Sessions : sessions[s].userId = i /\ OwnerWrite(s)]_vars

\* C17 witness: the owner of one of two accounts of the second server has
\* edited the profile.
C17_Witness ==
    /\ rev = "sB"
    /\ last.op = "edit"
    /\ Cardinality(DOMAIN users) = 2
    /\ last.before # <<>>
    /\ users[last.id] # last.before[1]

\* C18: an activation whose session names an account that does not resolve
\* reports an error, not a success.
C18_ActivateNotFound ==
    (last.op = "activate" /\ last.id # 0 /\ last.before = <<>>) =>
        /\ sessions[last.sess].error # ""
        /\ sessions[last.sess].message = ""

\* C19: a request to the owner's profile, dashboard or edit page whose
\* session names an account that does not resolve invalidates the session:
\* afterwards the session carries no user.
C19_StaleSessionInvalidated ==
    (last.op \in {"profile", "dashboard", "editPage"} /\ last.id # 0 /\ last.before = <<>>) =>
        /\ sessions[last.sess].userId = 0
        /\ ~sessions[last.sess].isLoggedIn

\* C20: POST /forgot-password answers alike for a registered and for an
\* unregistered email: the reply and the session after it are fixed by the
\* session before it alone (the same redirect, the same generic message),
\* and no account changes.
C20_ForgotGeneric ==
    [][\A s \in Sessions, e \in Emails :
          (Forgot(s, e) \/ ForgotB(s, e)) =>
              /\ users' = users
              /\ resp' = redirect("forgot", s, "/forgot-password")
              /\ sessions'[s] =
                   [sessions[s] EXCEPT !.error = "",
                      !.message = "If an account exists for this email, a password reset link has been sent."]]_vars

\* C20 witness: the reminder was asked for a registered email while the
\* other email was not registered.
C20_Witness ==
    /\ last.op = "forgot"
    /\ \E i \in DOMAIN users : users[i].email = last.email
    /\ \E e \in Emails : \A i \in DOMAIN users : users[i].email # e
    /\ sessions[last.sess].message =
         "If an account exists for this email, a password reset link has been sent."

Listed(r) == {r.providers[k]._id : k \in DOMAIN r.providers}

\* C22: a search asked for a category other than "All Categories" lists
\* only accounts of exactly that category, whether or not the category is
\* one of the base list; asked for no category, or for "All Categories",
\* it leaves out no account because of its category (an account listed
\* when its own category is asked for is listed).
C22_CategoryExact ==
    [][\A s \in Sessions, q \in AllSearchTexts, c \in AllSearchCategories :
          (Search(s, q, c, TRUE) \/ SearchA(s, q, c, TRUE) \/ HomeB(s, c, q)) =>
              /\ (Truthy(c) /\ c # tAllCategories) =>
                     \A k \in DOMAIN resp'.providers : resp'.providers[k].category = c
              /\ (~Truthy(c) \/ c = tAllCategories) =>
                     \A i \in DOMAIN users :
                        (\/ rev = "p0" /\ searchMatches(users[i], q, users[i].category)
                         \/ rev = "sA" /\ searchMatchesA(users[i], q, users[i].category)
                         \/ rev = "sB" /\ homeMatches(users[i], users[i].category, q))
                        => i \in Listed(resp')]_vars

\* the text occurs in the field, whatever the case of the letters
ContainsI(text, field) ==
    /\ field # Undef
    /\ \E i \in 0..Len(field) : \E j \in i..Len(field) :
          toLowerCase(SubSeq(field, i + 1, j)) = toLowerCase(text)

\* C23: a search given a text lists exactly the accounts that the same
\* search without the text lists (base and category filters) and whose
\* name or description contains the text, case-insensitively.
C23_TextMatchesNameOrDescription ==
    [][\A s \in Sessions, q \in AllSearchTexts, c \in AllSearchCategories :
          (Truthy(q) /\ (Search(s, q, c, TRUE) \/ HomeB(s, c, q))) =>
              Listed(resp') =
                 {i \in DOMAIN users :
                     /\ \/ rev = "p0" /\ searchMatches(users[i], Undef, c)
                        \/ rev = "sB" /\ homeMatches(users[i], c, Undef)
                     /\ \/ ContainsI(q, users[i].name)
                        \/ ContainsI(q, users[i].description)}]_vars

\* the base list of the program
BaseList ==
    IF rev = "p0" THEN baseCategories0
    ELSE IF rev = "sA" THEN baseCategoriesA
    ELSE baseCategoryList

\* C24: the category list a search page offers holds every entry of the
\* base list, whatever the store holds (nothing included) and whether the
\* store answered or failed.
C24_BaseListOffered ==
    last.op \in {"search", "home"} =>
        \A b \in Range(BaseList) : b \in Range(resp.categories)

\* C24 witness: a search page was built over an empty store, and it offers
\* categories.
C24_Witness ==
    /\ last.op = "search"
    /\ DOMAIN users = {}
    /\ Len(resp.categories) > 1

\* the categories a search page has to offer besides "All Categories"
OfferedCategories ==
    Range(BaseList) \cup
    {users[i].category : i \in {j \in DOMAIN users :
                                   /\ users[j].role = "provider"
                                   /\ Truthy(users[j].category)
                                   /\ trim(users[j].category) # Empty}}

\* C25: when the store answers, the category list of GET /search is "All
\* Categories" followed by the base list united with the non-empty
\* categories of all provider accounts, subscribed or not, each once, in
\* ascending order.
C25_CategoryListIsUnion ==
    (last.op = "search" /\ resp.error # "Failed to perform search." /\ resp.pageError = "") =>
        LET l == resp.categories
        IN /\ l # <<>>
           /\ l[1] = tAllCategories
           /\ Range(Tail(l)) = OfferedCategories
           /\ \A i \in 2..Len(l), j \in 2..Len(l) : i < j => textLess(l[i], l[j])

\* the one-shot messages of the session in the program's flash middleware
flashError(sess) == IF rev = "sA" THEN sess.error_msg ELSE sess.error
flashMessage(sess) == IF rev = "sA" THEN sess.success_msg ELSE sess.message

\* the requests that have read their session and not yet replied
Awaiting == {"registerBegin", "reviewBegin"}

\* C26: a flash message is shown once and never dropped: a request that
\* takes an error or success message out of its session (the message is
\* gone or replaced after the request) shows that message on the page it
\* renders.
C26_FlashShownOnce ==
    [][\A s \in Sessions :
          (last'.sess = s /\ last'.op \notin Awaiting) =>
              /\ (flashError(sessions[s]) # "" /\ flashError(sessions'[s]) # flashError(sessions[s]))
                    => (resp'.kind = "render" /\ resp'.error = flashError(sessions[s]))
              /\ (flashMessage(sessions[s]) # "" /\ flashMessage(sessions'[s]) # flashMessage(sessions[s]))
                    => (resp'.kind = "render" /\ resp'.message = flashMessage(sessions[s]))]_vars

\* the step logs session s in as account id: a login that presented the
\* account's email and the password its stored hash was made from, or the
\* registration that created the account
Authenticates(s, id) ==
    \/ /\ last'.op = "login"
       /\ last'.sess = s
       /\ last'.id = id
       /\ id \in DOMAIN users
       /\ users[id].email = last'.email
       /\ users[id].password = bcryptHash(last'.password)
    \/ /\ last'.op = "registered"
       /\ last'.sess = s
       /\ id \notin DOMAIN users
       /\ id \in DOMAIN users'

\* C27: a session gets a user id only by a successful login or by the
\* registration that creates the account, and loses it only by logout: a
\* step that changes the user id of a session either authenticates it as
\* that account or is its logout; every other request (a failed login, a
\* failed registration, a password reminder, a review) leaves the user id
\* as it was; the user id of a session always names a stored account; and
\* after a logout the session has none.
C27_AuthenticatedOnlyByLogin ==
    [][\A s \in Sessions :
          /\ sessions'[s].userId # 0 => sessions'[s].userId \in DOMAIN users'
          /\ sessions'[s].isLoggedIn => sessions'[s].userId # 0
          /\ (last'.op = "logout" /\ last'.sess = s) =>
                 (sessions'[s].userId = 0 /\ ~sessions'[s].isLoggedIn)
          /\ sessions'[s].userId # sessions[s].userId =>
                 \/ Authenticates(s, sessions'[s].userId)
                 \/ last'.op = "logout" /\ last'.sess = s]_vars

\* C27 witness: with every account registered, a login succeeded and the
\* session carries the id of the account whose password was presented.
C27_Witness ==
    /\ last.op = "login"
    /\ sessions[last.sess].userId = last.id
    /\ last.id \in DOMAIN users
    /\ Cardinality(DOMAIN users) = MaxAccounts

====
